---- MODULE Spec2Model ----
(***************************************************************************)
(* Model of app.py, the Streamlit allowance ledger.                        *)
(*                                                                         *)
(* Streamlit executes the whole script once per user interaction.  The     *)
(* state that survives between runs is st.session_state.data (the ledger)  *)
(* and the widget state, of which only the file held by the file_uploader  *)
(* matters here.  Every action below is one interaction followed by the    *)
(* complete script run it triggers (and, after a delete, the rerun that    *)
(* st.experimental_rerun() starts).                                        *)
(*                                                                         *)
(* The Korean literals of the source are written in ASCII:                 *)
(*   "지출" -> "Expense", "수입" -> "Income", "기타" -> "Other",           *)
(*   "식비" -> "Food".                                                     *)
(***************************************************************************)
EXTENDS Bags, FiniteSets, Integers, Sequences, TLC

VARIABLES data, uploaded, csv_buf, status

vars == <<data, uploaded, csv_buf, status>>

(***************************************************************************)
(* Bounds                                                                  *)
(***************************************************************************)
\* largest ledger the add form is allowed to build
MaxLen == 2
\* calendar days 1..MaxDay selectable in the date_input
MaxDay == 2

(***************************************************************************)
(* Values                                                                  *)
(***************************************************************************)
Expense == "Expense"
Income == "Income"
Other == "Other"

\* float('nan'), the value pandas stores for a missing text cell; no text
\* of the model is spelled like this
NaN == "<NaN>"

\* a pandas Timestamp at midnight of day d
Timestamp(d) == [kind |-> "Timestamp", day |-> d, text |-> ""]
\* a Python str held in an object column
Str(s) == [kind |-> "str", day |-> 0, text |-> s]

columns == {"date", "type", "category", "amount", "note"}

\* the ISO rendering of day d
IsoDates == <<"2024-01-01", "2024-01-02", "2024-01-03", "2024-01-04", "2024-01-05">>

strftime(d) == IsoDates[d]

\* the day a date text denotes, 0 when the text is no date
ParseDate(s) ==
    IF \E d \in 1..Len(IsoDates) : IsoDates[d] = s
    THEN CHOOSE d \in 1..Len(IsoDates) : IsoDates[d] = s
    ELSE IF s = "2024/01/02" THEN 2
    ELSE IF s = "Jan 1, 2024" THEN 1
    ELSE 0

\* str.strip() on the texts the model uses
strip(s) ==
    IF s \in {"", " ", "  "} THEN ""
    ELSE IF s = " Food " THEN "Food"
    ELSE s

\* the texts read_csv turns into NaN (na_filter, default na_values)
na_values == {"", "NA", "NaN", "null"}

(***************************************************************************)
(* Lines 29-40: the entry form                                             *)
(***************************************************************************)
new_row(e) ==
    [date |-> Timestamp(e.date),
     type |-> e.type,
     category |-> IF strip(e.category) # "" THEN strip(e.category) ELSE Other,
     amount |-> e.amount,
     note |-> e.note]

AddBlock(d, add_clicked, e) ==
    IF add_clicked
    THEN [data |-> Append(d, new_row(e)), status |-> {"added"}]
    ELSE [data |-> d, status |-> {}]

(***************************************************************************)
(* Lines 44-55: the CSV upload                                             *)
(***************************************************************************)
\* pd.read_csv(uploaded, parse_dates=["date"]): raises when the date column
\* is absent; the date column becomes Timestamps only when every cell
\* parses, otherwise it stays text; empty text cells become NaN; nothing
\* checks the sign of amount or the value of type
read_csv(f) ==
    LET ok == "date" \in f.cols
        parsed == \A i \in 1..Len(f.rows) : ParseDate(f.rows[i]["date"]) # 0
        cell(c, x) ==
            IF c = "date"
            THEN (IF parsed THEN Timestamp(ParseDate(x)) ELSE Str(x))
            ELSE IF c = "amount" THEN x
            ELSE IF x \in na_values THEN NaN ELSE x
    IN  [ok |-> ok,
         columns |-> f.cols,
         rows |-> IF ok
                  THEN [i \in 1..Len(f.rows) |->
                            [c \in f.cols |-> cell(c, f.rows[i][c])]]
                  ELSE <<>>]

\* variant: a file without the required columns clears the ledger
UploadBlockReset(d, up) ==
    IF up = <<>>
    THEN [data |-> d, status |-> {}]
    ELSE LET df_up == read_csv(up[1]) IN
         IF ~df_up.ok
         THEN [data |-> <<>>, status |-> {"csv_load_failed"}]
         ELSE IF columns \subseteq df_up.columns
         THEN [data |-> [i \in 1..Len(df_up.rows) |->
                            [c \in columns |-> df_up.rows[i][c]]],
               status |-> {"csv_loaded"}]
         ELSE [data |-> <<>>, status |-> {"csv_missing_columns"}]

UploadBlock(d, up) ==
    IF up = <<>>
    THEN [data |-> d, status |-> {}]
    ELSE LET df_up == read_csv(up[1]) IN
         IF ~df_up.ok
         THEN [data |-> d, status |-> {"csv_load_failed"}]
         ELSE IF columns \subseteq df_up.columns
         THEN [data |-> [i \in 1..Len(df_up.rows) |->
                            [c \in columns |-> df_up.rows[i][c]]],
               status |-> {"csv_loaded"}]
         ELSE [data |-> d, status |-> {"csv_missing_columns"}]

(***************************************************************************)
(* Lines 58-123: the display                                               *)
(***************************************************************************)
\* pd.to_datetime(df["date"]) succeeds
DatesParse(d) ==
    \A i \in 1..Len(d) :
        d[i].date.kind = "Timestamp" \/ ParseDate(d[i].date.text) # 0

to_datetime(d) ==
    [i \in 1..Len(d) |->
        [d[i] EXCEPT !.date =
            IF @.kind = "Timestamp" THEN @ ELSE Timestamp(ParseDate(@.text))]]

\* DataFrame.sort_values("date", ascending=...): frames this small are
\* sorted by insertion sort, so rows of one date keep their relative order
sort_values(d, ascending) ==
    LET before(j, i) ==
            \/ (IF ascending THEN d[j].date.day < d[i].date.day
                             ELSE d[j].date.day > d[i].date.day)
            \/ (d[j].date.day = d[i].date.day /\ j < i)
        rank(i) == Cardinality({j \in 1..Len(d) : before(j, i)}) + 1
    IN  [k \in 1..Len(d) |-> d[CHOOSE i \in 1..Len(d) : rank(i) = k]]

\* lines 62-65: the frame shown to the user, row k carrying the index k-1
df(d) == sort_values(to_datetime(d), FALSE)

\* DataFrame.drop(index=to_delete).reset_index(drop=True): the labels of
\* st.session_state.data are 0..N-1 in stored order
drop(d, to_delete) ==
    LET keep == {i \in 1..Len(d) : (i - 1) \notin to_delete}
        nth(k) == CHOOSE i \in keep : Cardinality({j \in keep : j < i}) = k - 1
    IN  [k \in 1..Cardinality(keep) |-> d[nth(k)]]

RECURSIVE SumIf(_, _, _)
\* df.loc[df["type"] == t, "amount"].sum() over the first n rows
SumIf(d, t, n) ==
    IF n = 0 THEN 0
    ELSE SumIf(d, t, n - 1) + (IF d[n].type = t THEN d[n].amount ELSE 0)

total_income(d) == SumIf(df(d), Income, Len(d))
total_expense(d) == SumIf(df(d), Expense, Len(d))
balance(d) == total_income(d) - total_expense(d)

df_time(d) == sort_values(df(d), TRUE)

signed_amount(r) == IF r.type = Income THEN r.amount ELSE 0 - r.amount

RECURSIVE cumsum(_, _)
\* df_time["signed_amount"].cumsum() at row n
cumsum(t, n) ==
    IF n = 0 THEN 0 ELSE cumsum(t, n - 1) + signed_amount(t[n])

cumulative_balance(d) ==
    [n \in 1..Len(d) |-> cumsum(df_time(d), n)]

\* df.sort_values("date").to_csv(index=False): dates in ISO form, NaN as
\* the empty text
to_csv(d) ==
    LET s == sort_values(df(d), TRUE)
        text(c, x) ==
            IF c = "date" THEN strftime(x.day)
            ELSE IF c = "amount" THEN x
            ELSE IF x = NaN THEN "" ELSE x
    IN  [cols |-> columns,
         rows |-> [i \in 1..Len(s) |-> [c \in columns |-> text(c, s[i][c])]]]

\* variant: the button handler without the test of to_delete
DeleteBlockUnchecked(d, pressed, to_delete) ==
    IF ~pressed THEN [data |-> d, status |-> {}, rerun |-> FALSE]
    ELSE [data |-> drop(d, to_delete), status |-> {"deleted"}, rerun |-> TRUE]

\* lines 73-79
DeleteBlock(d, pressed, to_delete) ==
    IF ~pressed THEN [data |-> d, status |-> {}, rerun |-> FALSE]
    ELSE IF to_delete # {}
    THEN [data |-> drop(d, to_delete), status |-> {"deleted"}, rerun |-> TRUE]
    ELSE [data |-> d, status |-> {"select_warning"}, rerun |-> FALSE]

DisplayBlock(d, pressed, to_delete) ==
    IF d = <<>>
    THEN [data |-> d, status |-> {"no_records"}, rerun |-> FALSE, csv_buf |-> <<>>]
    ELSE IF ~DatesParse(d)
    THEN [data |-> d, status |-> {"exception"}, rerun |-> FALSE, csv_buf |-> <<>>]
    ELSE LET x == DeleteBlock(d, pressed, to_delete) IN
         [data |-> x.data, status |-> x.status, rerun |-> x.rerun,
          csv_buf |-> IF x.rerun THEN <<>> ELSE <<to_csv(d)>>]

(***************************************************************************)
(* One execution of the script, and the interaction as a whole             *)
(***************************************************************************)
\* the form's initial values
DefaultEntry ==
    [date |-> 1, type |-> Expense, category |-> "Food", amount |-> 1000, note |-> ""]

ScriptRun(d, up, add_clicked, e, pressed, to_delete) ==
    LET a == AddBlock(d, add_clicked, e)
        u == UploadBlock(a.data, up)
        v == DisplayBlock(u.data, pressed, to_delete)
    IN  [data |-> v.data,
         status |-> a.status \cup u.status \cup v.status,
         rerun |-> v.rerun,
         csv_buf |-> v.csv_buf]

\* st.experimental_rerun() abandons the run and starts the script again
\* with no button pressed
Interaction(d, up, add_clicked, e, pressed, to_delete) ==
    LET r == ScriptRun(d, up, add_clicked, e, pressed, to_delete) IN
    IF r.rerun
    THEN ScriptRun(r.data, up, FALSE, DefaultEntry, FALSE, {})
    ELSE r

(***************************************************************************)
(* Inputs                                                                  *)
(***************************************************************************)
\* the texts and amount typed into the form: one filled in, one left blank
\* with the amount at its minimum
Fills ==
    { [category |-> "Food", amount |-> 100, note |-> "memo"],
      [category |-> "  ", amount |-> 0, note |-> ""] }

EntryInputs ==
    { [date |-> d, type |-> t, category |-> f.category, amount |-> f.amount,
       note |-> f.note] : d \in 1..MaxDay, t \in {Expense, Income}, f \in Fills }

RowA == [date |-> "2024-01-01", type |-> Expense, category |-> "Food",
         amount |-> 100, note |-> "lunch"]
RowB == [date |-> "2024-01-02", type |-> Income, category |-> "Allowance",
         amount |-> 300, note |-> "weekly"]

File(cols, rows) ==
    [cols |-> cols,
     rows |-> [i \in 1..Len(rows) |-> [c \in cols |-> rows[i][c]]]]

SampleFiles ==
    { File(columns, <<RowA, RowB>>),
      File(columns, <<>>),
      File(columns \cup {"extra"},
           <<[date |-> "2024/01/02", type |-> Income, category |-> "Allowance",
              amount |-> 300, note |-> "weekly", extra |-> "x"]>>),
      File(columns \ {"note"}, <<RowA>>),
      File(columns \ {"date"}, <<RowA>>),
      File(columns, <<[RowA EXCEPT !.amount = -100]>>),
      File(columns, <<[RowB EXCEPT !.date = "someday"]>>),
      File(columns, <<[RowA EXCEPT !.category = "  "]>>),
      File(columns, <<[RowA EXCEPT !.category = ""]>>),
      File(columns, <<[RowA EXCEPT !.type = "Transfer"]>>) }

(***************************************************************************)
(* Behaviour                                                               *)
(***************************************************************************)
Init ==
    /\ data = <<>>
    /\ uploaded = <<>>
    /\ csv_buf = <<>>
    /\ status = {"no_records"}

\* what an interaction leaves behind
Finish(result) ==
    \E r \in {result} :
        /\ data' = r.data
        /\ status' = r.status
        /\ csv_buf' = r.csv_buf

\* the form is submitted with the values e
Add(e) ==
    /\ Len(data) < MaxLen
    /\ uploaded' = uploaded
    /\ Finish(Interaction(data, uploaded, TRUE, e, FALSE, {}))

\* the user puts the file f into the uploader
Upload(f) ==
    /\ uploaded' = <<f>>
    /\ Finish(Interaction(data, <<f>>, FALSE, DefaultEntry, FALSE, {}))

\* the user removes the file from the uploader
ClearUpload ==
    /\ uploaded # <<>>
    /\ uploaded' = <<>>
    /\ Finish(Interaction(data, <<>>, FALSE, DefaultEntry, FALSE, {}))

\* the delete button, present when the last run rendered the table, is
\* pressed with to_delete chosen among the indices shown
Delete(to_delete) ==
    /\ data # <<>>
    /\ DatesParse(data)
    /\ to_delete \subseteq 0..(Len(data) - 1)
    /\ uploaded' = uploaded
    /\ Finish(Interaction(data, uploaded, FALSE, DefaultEntry, TRUE, to_delete))

\* any other widget interaction: the script runs with no button pressed
Rerun ==
    /\ uploaded' = uploaded
    /\ Finish(Interaction(data, uploaded, FALSE, DefaultEntry, FALSE, {}))

AddAny == \E e \in EntryInputs : Add(e)
\* the files at hand: the samples and the last download offered
Files == SampleFiles \cup {csv_buf[i] : i \in 1..Len(csv_buf)}

UploadAny == \E f \in Files : Upload(f)
DeleteAny == \E to_delete \in SUBSET (0..(Len(data) - 1)) : Delete(to_delete)

Next ==
    \/ AddAny
    \/ UploadAny
    \/ ClearUpload
    \/ DeleteAny
    \/ Rerun

Spec == Init /\ [][Next]_vars

TypeOK ==
    /\ Len(uploaded) <= 1
    /\ Len(csv_buf) <= 1
    /\ \A i \in 1..Len(data) : DOMAIN data[i] = columns

(***************************************************************************)
(* Properties                                                              *)
(***************************************************************************)
Count(x, s) == Cardinality({i \in 1..Len(s) : s[i] = x})
Range(s) == {s[i] : i \in 1..Len(s)}
SameEntries(s, t) ==
    \A x \in Range(s) \cup Range(t) : Count(x, s) = Count(x, t)

\* the rows the display shows at the indices to_delete
Shown(d, to_delete) ==
    LET v == df(d) IN drop(v, (0..(Len(v) - 1)) \ to_delete)

\* the last upload was read and accepted
Imported(up) ==
    /\ up # <<>>
    /\ read_csv(up[1]).ok
    /\ columns \subseteq up[1].cols

Malformed(f) ==
    /\ columns \subseteq f.cols
    /\ \E i \in 1..Len(f.rows) :
          f.rows[i]["amount"] < 0 \/ ParseDate(f.rows[i]["date"]) = 0

\* C1: a delete with a non-empty selection removes exactly the entries shown
\* at the selected positions of the descending-date view and keeps all
\* others
C1_DeleteRemovesShownEntries ==
    [][\A to_delete \in SUBSET (0..(Len(data) - 1)) :
          (to_delete # {} /\ Delete(to_delete)) =>
              \A x \in Range(data) :
                  Count(x, data') = Count(x, data) - Count(x, Shown(data, to_delete))]_vars

\* C2: uploading a file with a negative amount or an unparseable date is
\* rejected and leaves the ledger as it was
C2_MalformedImportRejected ==
    [][\A f \in Files :
          (Malformed(f) /\ Upload(f)) =>
              (data' = data /\ "csv_loaded" \notin status')]_vars

\* C3: uploading a file that lacks a required column is rejected with an
\* error message and the ledger keeps the same entries in the same order
C3_MissingColumnRejected ==
    [][\A f \in Files :
          (~(columns \subseteq f.cols) /\ Upload(f)) =>
              /\ data' = data
              /\ "csv_loaded" \notin status'
              /\ status' \cap {"csv_missing_columns", "csv_load_failed"} # {}]_vars

\* a non-empty ledger faces an uploaded file without the required columns
C3_Witness ==
    /\ data # <<>>
    /\ uploaded # <<>>
    /\ ~(columns \subseteq uploaded[1].cols)
    /\ "csv_missing_columns" \in status

\* C4: importing the download of a non-empty ledger gives the same multiset
\* of entries, entries with an empty note included
C4_RoundTrip ==
    csv_buf # <<>> => SameEntries(UploadBlock(<<>>, csv_buf).data, data)

\* C5: for a non-empty ledger the last running total of the cumulative
\* balance series equals the balance
C5_LastRunningTotalIsBalance ==
    (data # <<>> /\ DatesParse(data)) =>
        cumulative_balance(data)[Len(data)] = balance(data)

\* C6: every entry of the ledger has amount >= 0
C6_AmountNonNegative ==
    \A i \in 1..Len(data) : data[i].amount >= 0

\* C7: every entry of the ledger has a category that is neither missing nor
\* blank
C7_CategoryNonEmpty ==
    \A i \in 1..Len(data) :
        data[i].category # NaN /\ strip(data[i].category) # ""

\* C8: an add appends the new entry to the unchanged previous entries
C8_AddAppends ==
    [][\A e \in EntryInputs : Add(e) => data' = Append(data, new_row(e))]_vars

\* C9: pressing delete with nothing selected keeps the ledger and shows the
\* warning, not the success message
C9_EmptyDeleteWarns ==
    [][Delete({}) =>
          /\ data' = data
          /\ "select_warning" \in status'
          /\ "deleted" \notin status']_vars

\* the warning of an empty selection is on screen over a non-empty ledger
C9_Witness ==
    /\ data # <<>>
    /\ "select_warning" \in status
    /\ "deleted" \notin status

\* C10: once a file has been imported, a later run without a new upload does
\* not go back to the file: an added entry stays and a deletion shrinks the
\* ledger
C10_ImportOnlyOnce ==
    [][(Imported(uploaded) /\ uploaded' = uploaded) =>
          /\ \A e \in EntryInputs : Add(e) => new_row(e) \in Range(data')
          /\ \A to_delete \in SUBSET (0..(Len(data) - 1)) :
                (to_delete # {} /\ Delete(to_delete)) => Len(data') < Len(data)]_vars
====
